---- MODULE Spec2Model ----
(***************************************************************************)
(* Model of src/x86-ubuntu-24.04-gapbs/x86-gapbs.py: the gem5 driver       *)
(* script that runs one GAP benchmark on a 2-core X86 board.               *)
(*                                                                         *)
(* The script is straight-line module code.  Each statement (or block of   *)
(* prints) is one action; pc is the statement the interpreter executes     *)
(* next.  The gem5 library is an opaque collaborator: its run loop is      *)
(* modelled as a nondeterministic source of guest exit events, of a        *)
(* normal return and of a failure.                                         *)
(***************************************************************************)
EXTENDS Integers, Sequences, FiniteSets, TLC

VARIABLES
    build,      \* capabilities of the gem5 binary that executes the script
    argv,       \* options given on the command line: option name -> string
    pc,         \* next statement of the script, or how the process ended
    args,       \* namespace returned by parser.parse_args()
    objects,    \* simulator objects constructed so far: name -> parameters
    command,    \* the script's `command` variable
    workload,   \* what board.set_kernel_disk_workload() was given
    stats,      \* calls of m5.stats.reset() / m5.stats.dump() by the script
    clock,      \* globalStart has been taken
    runCount,   \* calls of simulator.run()
    runOutcome, \* "none", "running", "returned" or "failed"
    markers,    \* guest exit events dispatched by the run loop
    workends,   \* WORKEND events seen by the framework (its ROI bookkeeping)
    consumed,   \* registered handler generators that are exhausted
    stdout      \* lines printed by the script

vars == <<build, argv, pc, args, objects, command, workload, stats, clock,
          runCount, runOutcome, markers, workends, consumed, stdout>>

----------------------------------------------------------------------------
(* Bounds and input domains *)

MaxMarkers == 3

ISAs == {"X86", "ARM"}
Protocols == {"MESI_TWO_LEVEL", "MI_EXAMPLE"}

BenchmarkInputs == {"cc", "bc", "tc", "pr", "bfs", "sssp", "BFS", ""}
SizeInputs == {"8", "16", "17", "USA-road-d.NY.gr", "foo.gr", "", "a b"}
SyntheticInputs == {"t", "f", "true", "T", ""}

Options == {"benchmark", "size", "synthetic"}

InputOf(opt) ==
    IF opt = "benchmark" THEN BenchmarkInputs
    ELSE IF opt = "size" THEN SizeInputs
    ELSE SyntheticInputs

ExitEvents == {"WORKBEGIN", "WORKEND"}

NoArgs == [o \in {} |-> ""]
NoObjects == [o \in {} |-> [kind |-> ""]]

----------------------------------------------------------------------------
(* requires(isa_required=X86, coherence_protocol_required=MESI_TWO_LEVEL,  *)
(*          kvm_required=True)                                             *)

requires_IsaOnly(b) ==
    b.isa = "X86" /\ b.kvm

requires(b) ==
    /\ b.isa = "X86"
    /\ b.protocol = "MESI_TWO_LEVEL"
    /\ b.kvm

----------------------------------------------------------------------------
(* The argument parser *)

size_choices ==
    {"1", "2", "3", "4", "5", "6", "7", "8", "9", "10", "11", "12", "13",
     "14", "15", "16"} \cup {"USA-road-d.NY.gr"}

benchmark_choices_Extra == {"cc", "bc", "tc", "pr", "bfs", "sssp"}

benchmark_choices == {"cc", "bc", "tc", "pr", "bfs"}

synthetic_choices_Extra == {"t", "f", "true"}

synthetic_choices == {"t", "f"}

\* The three add_argument() calls.  restricted is FALSE where no choices=
\* keyword is passed (for --size it is commented out).
parser_Sized ==
    [benchmark |-> [required |-> TRUE, restricted |-> TRUE,
                    choices |-> benchmark_choices],
     size      |-> [required |-> TRUE, restricted |-> TRUE,
                    choices |-> size_choices],
     synthetic |-> [required |-> TRUE, restricted |-> TRUE,
                    choices |-> synthetic_choices]]

parser ==
    [benchmark |-> [required |-> TRUE, restricted |-> TRUE,
                    choices |-> benchmark_choices],
     size      |-> [required |-> TRUE, restricted |-> FALSE,
                    choices |-> size_choices],
     synthetic |-> [required |-> TRUE, restricted |-> TRUE,
                    choices |-> synthetic_choices]]

\* argparse accepts an option when it is present if required, and its value
\* is one of the choices if choices were given.
Accepts(opt, given) ==
    IF opt \in DOMAIN given
    THEN parser[opt].restricted => given[opt] \in parser[opt].choices
    ELSE ~parser[opt].required

ParseOK(given) == \A opt \in Options : Accepts(opt, given)

----------------------------------------------------------------------------
(* The guest command: the if/else on args.synthetic with its two f-strings *)

CommandFor_Swapped(a) ==
    IF a["synthetic"] = "f"
    THEN "cd /home/gem5/gapbs;" \o "./" \o a["benchmark"] \o " -g "
            \o a["size"] \o " -n 10"
    ELSE "cd /home/gem5/gapbs;" \o "./" \o a["benchmark"]
            \o " -sf /home/gem5/" \o a["size"] \o " -n 10"

CommandFor(a) ==
    IF a["synthetic"] = "f"
    THEN "cd /home/gem5/gapbs;" \o "./" \o a["benchmark"]
            \o " -sf /home/gem5/" \o a["size"] \o " -n 10"
    ELSE "cd /home/gem5/gapbs;" \o "./" \o a["benchmark"] \o " -g "
            \o a["size"] \o " -n 10"

----------------------------------------------------------------------------
(* Printed lines: the text, and the statistic the line reports, if any *)

Line(text) == [text |-> text, stat |-> "none"]
StatLine(text, stat) == [text |-> text, stat |-> stat]

Printed(text) == \E i \in DOMAIN stdout : stdout[i].text = text
Reported(stat) == \E i \in DOMAIN stdout : stdout[i].stat = stat

----------------------------------------------------------------------------
(* Exit-event handlers *)

\* The on_exit_event argument of Simulator(): the dictionary is commented
\* out, so no handler is registered.
on_exit_event_Registered ==
    [e \in ExitEvents |->
        IF e = "WORKBEGIN" THEN "handle_workbegin" ELSE "handle_workend"]

on_exit_event == [e \in {} |-> ""]

\* processor.switch(): only a switchable processor has the method.
switch(p) ==
    IF p.kind = "SimpleSwitchableProcessor"
    THEN [ok |-> TRUE, processor |-> [p EXCEPT !.cpu_type = "TIMING"]]
    ELSE [ok |-> FALSE, processor |-> p]

WorkbeginLines ==
    <<Line("Done booting Linux"),
      Line("Resetting stats at the start of ROI!")>>

WorkendLines ==
    <<Line("Dump stats at the end of the ROI!")>>

\* Effect of running a handler generator up to its yield (or to the
\* exception that ends it).  yield TRUE asks the run loop to exit.
handle_workbegin(out, st, p) ==
    [stdout |-> out \o WorkbeginLines,
     stats |-> [st EXCEPT !.resets = @ + 1],
     processor |-> switch(p).processor,
     raised |-> ~switch(p).ok,
     yield |-> FALSE]

handle_workend(out, st, p) ==
    [stdout |-> out \o WorkendLines,
     stats |-> [st EXCEPT !.dumps = @ + 1],
     processor |-> p,
     raised |-> FALSE,
     yield |-> TRUE]

\* The framework's own handling of an event without a (live) script handler:
\* the script's state is untouched and the run loop goes on.
default_handler(out, st, p) ==
    [stdout |-> out, stats |-> st, processor |-> p,
     raised |-> FALSE, yield |-> FALSE]

Dispatch(ev, handlers, done, out, st, p) ==
    IF ev \in DOMAIN handlers /\ ev \notin done
    THEN IF handlers[ev] = "handle_workbegin"
         THEN handle_workbegin(out, st, p)
         ELSE handle_workend(out, st, p)
    ELSE default_handler(out, st, p)

----------------------------------------------------------------------------
(* Initial states: any build, any subset of the options with any values *)

Init ==
    /\ build \in [isa : ISAs, protocol : Protocols, kvm : BOOLEAN]
    /\ \E given \in SUBSET Options :
          argv \in [given -> BenchmarkInputs \cup SizeInputs \cup SyntheticInputs]
    /\ \A opt \in DOMAIN argv : argv[opt] \in InputOf(opt)
    /\ pc = "requires"
    /\ args = NoArgs
    /\ objects = NoObjects
    /\ command = ""
    /\ workload = [attached |-> FALSE, readfile_contents |-> ""]
    /\ stats = [resets |-> 0, dumps |-> 0]
    /\ clock = FALSE
    /\ runCount = 0
    /\ runOutcome = "none"
    /\ markers = 0
    /\ workends = 0
    /\ consumed = {}
    /\ stdout = <<>>

----------------------------------------------------------------------------
(* The module body, statement by statement *)

\* requires(...): raises when the build lacks a capability.
Requires ==
    /\ pc = "requires"
    /\ pc' = IF requires(build) THEN "parse_args" ELSE "aborted"
    /\ UNCHANGED <<build, argv, args, objects, command, workload, stats,
                   clock, runCount, runOutcome, markers, workends, consumed,
                   stdout>>

\* size_choices, benchmark_choices, the parser and parser.parse_args():
\* on an error argparse prints the usage and exits with status 2.
ParseArgs ==
    /\ pc = "parse_args"
    /\ IF ParseOK(argv)
       THEN /\ args' = argv
            /\ pc' = "cache_hierarchy"
       ELSE /\ args' = args
            /\ pc' = "usage_error"
    /\ UNCHANGED <<build, argv, objects, command, workload, stats, clock,
                   runCount, runOutcome, markers, workends, consumed, stdout>>

Construct(at, name, params, next) ==
    /\ pc = at
    /\ objects' = (name :> params) @@ objects
    /\ pc' = next
    /\ UNCHANGED <<build, argv, args, command, workload, stats, clock,
                   runCount, runOutcome, markers, workends, consumed, stdout>>

\* The keyword arguments of the four component constructors
MESITwoLevelCacheHierarchy ==
    [kind |-> "MESITwoLevelCacheHierarchy",
     l1d_size |-> "32kB", l1d_assoc |-> 8,
     l1i_size |-> "32kB", l1i_assoc |-> 8,
     l2_size |-> "256kB", l2_assoc |-> 16, num_l2_banks |-> 2]

DualChannelDDR4_2400 ==
    [kind |-> "DualChannelDDR4_2400", size |-> "3GB"]

SimpleProcessor ==
    [kind |-> "SimpleProcessor", cpu_type |-> "KVM", num_cores |-> 2,
     isa |-> "X86"]

X86Board ==
    [kind |-> "X86Board", clk_freq |-> "3GHz", processor |-> "processor",
     memory |-> "memory", cache_hierarchy |-> "cache_hierarchy"]

ConstructCacheHierarchy ==
    Construct("cache_hierarchy", "cache_hierarchy",
              MESITwoLevelCacheHierarchy, "memory")

ConstructMemory ==
    Construct("memory", "memory", DualChannelDDR4_2400, "processor")

ConstructProcessor ==
    Construct("processor", "processor", SimpleProcessor, "board")

ConstructBoard ==
    Construct("board", "board", X86Board, "command")

\* if (args.synthetic == "f"): command = ... else: command = ...
SynthesizeCommand ==
    /\ pc = "command"
    /\ command' = CommandFor(args)
    /\ pc' = "set_workload"
    /\ UNCHANGED <<build, argv, args, objects, workload, stats, clock,
                   runCount, runOutcome, markers, workends, consumed, stdout>>

SetWorkload_Skipped ==
    /\ pc = "set_workload"
    /\ pc' = "simulator"
    /\ UNCHANGED <<build, argv, args, objects, command, workload, stats,
                   clock, runCount, runOutcome, markers, workends, consumed,
                   stdout>>

\* board.set_kernel_disk_workload(kernel=..., disk_image=...,
\*                                readfile_contents=command, kernel_args=...)
SetWorkload ==
    /\ pc = "set_workload"
    /\ workload' = [attached |-> TRUE, readfile_contents |-> command]
    /\ pc' = "simulator"
    /\ UNCHANGED <<build, argv, args, objects, command, stats, clock,
                   runCount, runOutcome, markers, workends, consumed, stdout>>

\* simulator = Simulator(board=board)
Simulator ==
    [kind |-> "Simulator", board |-> "board",
     on_exit_event |-> on_exit_event]

ConstructSimulator ==
    Construct("simulator", "simulator", Simulator, "start_clock")

\* print("Running the simulation"); print("Using KVM cpu")
RunBanner ==
    <<Line("Running the simulation"), Line("Using KVM cpu")>>

\* globalStart = time.time() and the two prints that follow it
StartClock ==
    /\ pc = "start_clock"
    /\ clock' = TRUE
    /\ stdout' = stdout \o RunBanner
    /\ pc' = "reset_stats"
    /\ UNCHANGED <<build, argv, args, objects, command, workload, stats,
                   runCount, runOutcome, markers, workends, consumed>>

ResetStats_Forgotten ==
    /\ pc = "reset_stats"
    /\ pc' = "run"
    /\ UNCHANGED <<build, argv, args, objects, command, workload, stats,
                   clock, runCount, runOutcome, markers, workends, consumed,
                   stdout>>

\* m5.stats.reset()
ResetStats ==
    /\ pc = "reset_stats"
    /\ stats' = [stats EXCEPT !.resets = @ + 1]
    /\ pc' = "run"
    /\ UNCHANGED <<build, argv, args, objects, command, workload, clock,
                   runCount, runOutcome, markers, workends, consumed, stdout>>

\* simulator.run(): the call enters the framework's run loop
Run ==
    /\ pc = "run"
    /\ runCount' = runCount + 1
    /\ runOutcome' = "running"
    /\ pc' = "running"
    /\ UNCHANGED <<build, argv, args, objects, command, workload, stats,
                   clock, markers, workends, consumed, stdout>>

\* Inside run(): the guest emits a workbegin / workend marker and the run
\* loop dispatches it.  A handler generator is exhausted after its one yield.
ExitEvent(ev) ==
    /\ pc = "running"
    /\ markers < MaxMarkers
    /\ LET handlers == objects["simulator"].on_exit_event
           r == Dispatch(ev, handlers, consumed, stdout, stats,
                         objects["processor"])
       IN  /\ stdout' = r.stdout
           /\ stats' = r.stats
           /\ objects' = [objects EXCEPT !["processor"] = r.processor]
           /\ consumed' = IF ev \in DOMAIN handlers
                          THEN consumed \cup {ev} ELSE consumed
           /\ pc' = IF r.raised THEN "crashed"
                    ELSE IF r.yield THEN "print_success" ELSE "running"
           /\ runOutcome' = IF r.raised THEN "failed"
                            ELSE IF r.yield THEN "returned" ELSE "running"
    /\ markers' = markers + 1
    /\ workends' = IF ev = "WORKEND" THEN workends + 1 ELSE workends
    /\ UNCHANGED <<build, argv, args, command, workload, clock, runCount>>

\* run() returns: the guest workload halted.
RunReturns ==
    /\ pc = "running"
    /\ runOutcome' = "returned"
    /\ pc' = "print_success"
    /\ UNCHANGED <<build, argv, args, objects, command, workload, stats,
                   clock, runCount, markers, workends, consumed, stdout>>

RunFails_Swallowed ==
    /\ pc = "running"
    /\ runOutcome' = "failed"
    /\ pc' = "print_success"
    /\ UNCHANGED <<build, argv, args, objects, command, workload, stats,
                   clock, runCount, markers, workends, consumed, stdout>>

\* run() raises: nothing in the script catches it.
RunFails ==
    /\ pc = "running"
    /\ runOutcome' = "failed"
    /\ pc' = "crashed"
    /\ UNCHANGED <<build, argv, args, objects, command, workload, stats,
                   clock, runCount, markers, workends, consumed, stdout>>

SuccessLines ==
    <<Line("All simulation events were successful."),
      Line("Done with the simulation"),
      Line(""),
      Line("Performance statistics:")>>

\* The four prints after run()
PrintSuccess ==
    /\ pc = "print_success"
    /\ stdout' = stdout \o SuccessLines
    /\ pc' = "print_roi"
    /\ UNCHANGED <<build, argv, args, objects, command, workload, stats,
                   clock, runCount, runOutcome, markers, workends, consumed>>

RoiLine ==
    <<StatLine("Simulated time in ROI: <ticks>", "roi_ticks")>>

\* print("Simulated time in ROI: " + str(simulator.get_roi_ticks()[0])):
\* the list is the framework's; with no WORKEND seen it may be empty and
\* the [0] then raises IndexError.
PrintRoiTicks ==
    /\ pc = "print_roi"
    /\ \/ /\ stdout' = stdout \o RoiLine
          /\ pc' = "print_totals"
       \/ /\ workends = 0
          /\ stdout' = stdout
          /\ pc' = "crashed"
    /\ UNCHANGED <<build, argv, args, objects, command, workload, stats,
                   clock, runCount, runOutcome, markers, workends, consumed>>

TotalLines ==
    <<StatLine("Ran a total of <seconds> simulated seconds", "sim_seconds"),
      StatLine("Total wallclock time: <s>s, <min> min", "wallclock")>>

\* The last two prints: simulated seconds, then wall-clock time
PrintTotals ==
    /\ pc = "print_totals"
    /\ clock
    /\ stdout' = stdout \o TotalLines
    /\ pc' = "done"
    /\ UNCHANGED <<build, argv, args, objects, command, workload, stats,
                   clock, runCount, runOutcome, markers, workends, consumed>>

Next ==
    \/ Requires
    \/ ParseArgs
    \/ ConstructCacheHierarchy
    \/ ConstructMemory
    \/ ConstructProcessor
    \/ ConstructBoard
    \/ SynthesizeCommand
    \/ SetWorkload
    \/ ConstructSimulator
    \/ StartClock
    \/ ResetStats
    \/ Run
    \/ \E ev \in ExitEvents : ExitEvent(ev)
    \/ RunReturns
    \/ RunFails
    \/ PrintSuccess
    \/ PrintRoiTicks
    \/ PrintTotals

Spec == Init /\ [][Next]_vars

----------------------------------------------------------------------------
(* Properties *)

Given(opt) == opt \in DOMAIN argv

ValidBenchmark ==
    Given("benchmark") /\ argv["benchmark"] \in {"cc", "bc", "tc", "pr", "bfs"}

ValidSynthetic ==
    Given("synthetic") /\ argv["synthetic"] \in {"t", "f"}

BuildSupported ==
    build.isa = "X86" /\ build.protocol = "MESI_TWO_LEVEL" /\ build.kvm

Made(name) == name \in DOMAIN objects

\* C1: the readfile contents handed to the board are exactly
\* 'cd /home/gem5/gapbs;./<b> -sf /home/gem5/<s> -n 10' for --synthetic f
\* and 'cd /home/gem5/gapbs;./<b> -g <s> -n 10' for --synthetic t, with
\* <b> and <s> the --benchmark and --size given on the command line; both
\* end with the trial count '-n 10'.
C1_GuestCommand ==
    workload.attached =>
        /\ ValidBenchmark /\ ValidSynthetic /\ Given("size")
        /\ argv["synthetic"] = "f" =>
              workload.readfile_contents =
                 "cd /home/gem5/gapbs;./" \o argv["benchmark"]
                    \o " -sf /home/gem5/" \o argv["size"] \o " -n 10"
        /\ argv["synthetic"] = "t" =>
              workload.readfile_contents =
                 "cd /home/gem5/gapbs;./" \o argv["benchmark"]
                    \o " -g " \o argv["size"] \o " -n 10"
        /\ (argv["benchmark"] = "bfs" /\ argv["size"] = "foo.gr"
                /\ argv["synthetic"] = "f") =>
              workload.readfile_contents =
                 "cd /home/gem5/gapbs;./bfs -sf /home/gem5/foo.gr -n 10"
        /\ (argv["benchmark"] = "pr" /\ argv["size"] = "8"
                /\ argv["synthetic"] = "t") =>
              workload.readfile_contents =
                 "cd /home/gem5/gapbs;./pr -g 8 -n 10"

C1_Witness ==
    /\ pc = "done"
    /\ workload.readfile_contents =
          "cd /home/gem5/gapbs;./bfs -sf /home/gem5/foo.gr -n 10"

\* C2: with a --benchmark value outside {cc, bc, tc, pr, bfs} the script
\* never gets past argument parsing: it ends in the usage error, no
\* simulator object is ever constructed and the simulation is never run.
C2_BadBenchmarkRejected ==
    (Given("benchmark")
        /\ argv["benchmark"] \notin {"cc", "bc", "tc", "pr", "bfs"}) =>
        /\ pc \in {"requires", "aborted", "parse_args", "usage_error"}
        /\ DOMAIN objects = {}
        /\ runCount = 0

C2_Witness ==
    /\ pc = "usage_error"
    /\ Given("benchmark") /\ argv["benchmark"] = "sssp"
    /\ Given("size") /\ ValidSynthetic

\* C3: with a --synthetic value other than 't' and 'f' the invocation is
\* rejected: no guest command is synthesized, no simulator object is
\* constructed and the simulation is never run.
C3_BadSyntheticRejected ==
    (Given("synthetic") /\ argv["synthetic"] \notin {"t", "f"}) =>
        /\ pc \in {"requires", "aborted", "parse_args", "usage_error"}
        /\ command = ""
        /\ ~workload.attached
        /\ DOMAIN objects = {}
        /\ runCount = 0

C3_Witness ==
    /\ pc = "usage_error"
    /\ Given("synthetic") /\ argv["synthetic"] = "true"
    /\ Given("size") /\ ValidBenchmark

\* C4: on a build without the X86 ISA or without the MESI_TWO_LEVEL
\* protocol the script stops at the precondition check, whatever the
\* arguments: they are never parsed and no simulator object is constructed.
C4_RequiresFailsFast ==
    (build.isa # "X86" \/ build.protocol # "MESI_TWO_LEVEL") =>
        /\ pc \in {"requires", "aborted"}
        /\ args = NoArgs
        /\ DOMAIN objects = {}
        /\ runCount = 0

C4_Witness ==
    /\ pc = "aborted"
    /\ build.isa = "X86" /\ build.kvm /\ build.protocol # "MESI_TWO_LEVEL"
    /\ ValidBenchmark /\ ValidSynthetic /\ Given("size")

\* C5: the script resets the statistics at most once; once the run loop
\* has been entered it has done so exactly once, and it stays at one
\* during and after the run.
C5_ResetOnceBeforeRun ==
    /\ stats.resets <= 1
    /\ (pc = "run" \/ runCount > 0) => stats.resets = 1
    /\ pc \in {"requires", "parse_args", "cache_hierarchy", "memory",
               "processor", "board", "command", "set_workload", "simulator",
               "start_clock", "reset_stats"} => stats.resets = 0

C5_Witness ==
    /\ pc = "done"
    /\ stats.resets = 1
    /\ markers >= 2

\* C6: with a valid benchmark and a valid synthetic flag, no --size string
\* leads to the usage error, the parsed size is the string given and the
\* guest command carries it unmodified between the flag and ' -n 10'.
C6_SizeUnchecked ==
    (ValidBenchmark /\ ValidSynthetic /\ Given("size")) =>
        /\ pc # "usage_error"
        /\ (pc \notin {"requires", "aborted", "parse_args"}) =>
              args["size"] = argv["size"]
        /\ workload.attached =>
              \E flag \in {" -sf /home/gem5/", " -g "} :
                 workload.readfile_contents =
                    "cd /home/gem5/gapbs;./" \o argv["benchmark"] \o flag
                       \o argv["size"] \o " -n 10"
        /\ (workload.attached /\ argv["benchmark"] = "cc"
                /\ argv["synthetic"] = "t" /\ argv["size"] = "17") =>
              workload.readfile_contents = "cd /home/gem5/gapbs;./cc -g 17 -n 10"
        /\ (workload.attached /\ argv["benchmark"] = "tc"
                /\ argv["synthetic"] = "f" /\ argv["size"] = "a b") =>
              workload.readfile_contents =
                 "cd /home/gem5/gapbs;./tc -sf /home/gem5/a b -n 10"

C6_Witness ==
    /\ workload.attached
    /\ argv["size"] = "17"
    /\ argv["size"] \notin size_choices
    /\ workload.readfile_contents = "cd /home/gem5/gapbs;./cc -g 17 -n 10"

\* C7: once the run has returned and the script has finished, it has
\* reported the ROI instruction count, the simulated time and the
\* wall-clock time.
C7_ReportsRoiInstructions ==
    pc = "done" =>
        /\ Reported("roi_instructions")
        /\ Reported("sim_seconds")
        /\ Reported("wallclock")

\* C8: simulator.run() is called at most once, and after a failed run the
\* script is dead: neither 'All simulation events were successful.' nor
\* any statistics line has been printed.
C8_FailurePropagates ==
    /\ runCount <= 1
    /\ runOutcome = "failed" =>
          /\ pc = "crashed"
          /\ runCount = 1
          /\ ~Printed("All simulation events were successful.")
          /\ ~Printed("Performance statistics:")
          /\ \A i \in DOMAIN stdout : stdout[i].stat = "none"

C8_Witness ==
    /\ runOutcome = "failed"
    /\ pc = "crashed"
    /\ markers >= 1

C10_PhaseOrder ==
    /\ pc \notin {"requires", "aborted"} => BuildSupported
    /\ DOMAIN objects # {} => DOMAIN args = Options
    /\ Made("memory") => Made("cache_hierarchy")
    /\ Made("processor") => Made("memory")
    /\ Made("board") => Made("processor")
    /\ command # "" => Made("board")
    /\ workload.attached =>
          /\ Made("board")
          /\ command # ""
          /\ workload.readfile_contents = command
    /\ pc = "simulator" => ~Made("simulator")
    /\ Made("simulator") => workload.attached
    /\ runCount <= 1
    /\ runCount > 0 => Made("simulator") /\ workload.attached /\ clock
    /\ runOutcome = "none" <=> runCount = 0
    /\ (Printed("All simulation events were successful.")
            \/ \E i \in DOMAIN stdout : stdout[i].stat # "none") =>
          runOutcome = "returned"

C10_Witness ==
    /\ pc = "done"
    /\ runCount = 1
    /\ Made("simulator")
    /\ Reported("wallclock")

====
